---- MODULE Spec2Model ----
(***************************************************************************)
(* Order book maintenance of ramirocarra/ratherlabs-challenge-rust.        *)
(*                                                                         *)
(* The model follows src/src/orderbook.rs: an OrderBook holds two depth    *)
(* ladders (Vec<(BigDecimal, BigDecimal)>) and a last_update_id, and       *)
(* OrderBook::handle_diff gates a diff on its update ids and then applies  *)
(* the bid changes and the ask changes one by one.  Prices and quantities  *)
(* are exact decimals in the source; they are integers here (comparison    *)
(* and the zero test are all handle_diff uses).  Vec positions are 1-based *)
(* here, and position 0 stands for Option::None.                           *)
(***************************************************************************)
EXTENDS Integers, Sequences, FiniteSets, TLC

\* ------------------------------------------------------------------ bounds
MaxPrice == 2
MaxQty == 2
MaxChanges == 2
MaxId == 4
SnapshotId == 0

Prices == 0..MaxPrice
Quantities == 0..MaxQty
UpdateIds == (SnapshotId + 1)..(SnapshotId + MaxId)

\* ------------------------------------------------------------ Vec helpers
\* Option<&T>::map(..).unwrap_or_else(|| BigDecimal::zero()) on first()/last()
first_price_or_zero(depth) == IF Len(depth) = 0 THEN 0 ELSE depth[1][1]

last_price_or_zero(depth) == IF Len(depth) = 0 THEN 0 ELSE depth[Len(depth)][1]

\* iter().position(|(p, _)| *p == price): the first index holding the price
position(depth, price) ==
    LET hits == {i \in 1..Len(depth) : depth[i][1] = price}
    IN IF hits = {} THEN 0 ELSE CHOOSE i \in hits : \A j \in hits : i <= j

\* Vec::remove(pos)
remove(depth, pos) ==
    SubSeq(depth, 1, pos - 1) \o SubSeq(depth, pos + 1, Len(depth))

\* Vec::insert(i, e): e ends up at position pos, the tail shifts right
insert(depth, pos, e) ==
    SubSeq(depth, 1, pos - 1) \o <<e>> \o SubSeq(depth, pos, Len(depth))

\* Vec::push(e)
push(depth, e) == Append(depth, e)

\* ------------------------------------------------- one change, bid ladder
\* for (i, (p, _)) in self.bids.iter().enumerate() { if *p < price { insert; break } }
scan_insert_bid(bids, change) ==
    LET lower == {i \in 1..Len(bids) : bids[i][1] < change[1]}
    IN IF lower = {} THEN bids
       ELSE insert(bids, CHOOSE i \in lower : \A j \in lower : i <= j, change)

\* mutant: the ask ladder's comparisons used on the bid ladder
insert_bid_as_ask(bids, change) ==
    IF change[1] > last_price_or_zero(bids) THEN push(bids, change)
    ELSE IF change[1] < first_price_or_zero(bids) THEN insert(bids, 1, change)
    ELSE scan_insert_bid(bids, change)

\* the price is absent and the quantity is not zero
insert_bid(bids, change) ==
    IF change[1] < last_price_or_zero(bids) THEN push(bids, change)
    ELSE IF change[1] > first_price_or_zero(bids) THEN insert(bids, 1, change)
    ELSE scan_insert_bid(bids, change)

\* mutant: a zero quantity removes only a present price, else it is inserted
apply_bid_change_zero_stored(bids, change) ==
    LET element_pos == position(bids, change[1])
    IN IF change[2] = 0 /\ element_pos # 0 THEN remove(bids, element_pos)
       ELSE IF element_pos # 0 THEN [bids EXCEPT ![element_pos] = change]
       ELSE insert_bid(bids, change)

\* mutant: a present price has the change's quantity added to its own
apply_bid_change_accumulate(bids, change) ==
    LET element_pos == position(bids, change[1])
    IN IF change[2] = 0
       THEN IF element_pos # 0 THEN remove(bids, element_pos) ELSE bids
       ELSE IF element_pos # 0
            THEN [bids EXCEPT ![element_pos] = <<change[1], @[2] + change[2]>>]
       ELSE insert_bid(bids, change)

\* body of the loop over diff.bids
apply_bid_change(bids, change) ==
    LET element_pos == position(bids, change[1])
    IN IF change[2] = 0
       THEN IF element_pos # 0 THEN remove(bids, element_pos) ELSE bids
       ELSE IF element_pos # 0 THEN [bids EXCEPT ![element_pos] = change]
       ELSE insert_bid(bids, change)

RECURSIVE apply_bid_changes(_, _)
\* for (price, quantity) in diff.bids.into_iter() { ... }
apply_bid_changes(bids, changes) ==
    IF changes = <<>> THEN bids
    ELSE apply_bid_changes(apply_bid_change(bids, Head(changes)), Tail(changes))

\* ------------------------------------------------- one change, ask ladder
\* for (i, (p, _)) in self.asks.iter_mut().enumerate() { if *p > price { insert; break } }
scan_insert_ask(asks, change) ==
    LET higher == {i \in 1..Len(asks) : asks[i][1] > change[1]}
    IN IF higher = {} THEN asks
       ELSE insert(asks, CHOOSE i \in higher : \A j \in higher : i <= j, change)

\* mutant: the bid ladder's comparisons used on the ask ladder
insert_ask_as_bid(asks, change) ==
    IF change[1] < last_price_or_zero(asks) THEN push(asks, change)
    ELSE IF change[1] > first_price_or_zero(asks) THEN insert(asks, 1, change)
    ELSE scan_insert_ask(asks, change)

\* the price is absent and the quantity is not zero
insert_ask(asks, change) ==
    IF change[1] > last_price_or_zero(asks) THEN push(asks, change)
    ELSE IF change[1] < first_price_or_zero(asks) THEN insert(asks, 1, change)
    ELSE scan_insert_ask(asks, change)

\* mutant: a zero quantity for an absent price removes the front entry
apply_ask_change_absent_removes_front(asks, change) ==
    LET element_pos == position(asks, change[1])
    IN IF change[2] = 0
       THEN remove(asks, IF element_pos # 0 THEN element_pos ELSE 1)
       ELSE IF element_pos # 0 THEN [asks EXCEPT ![element_pos] = change]
       ELSE insert_ask(asks, change)

\* body of the loop over diff.asks
apply_ask_change(asks, change) ==
    LET element_pos == position(asks, change[1])
    IN IF change[2] = 0
       THEN IF element_pos # 0 THEN remove(asks, element_pos) ELSE asks
       ELSE IF element_pos # 0 THEN [asks EXCEPT ![element_pos] = change]
       ELSE insert_ask(asks, change)

RECURSIVE apply_ask_changes(_, _)
\* for (price, quantity) in diff.asks.into_iter() { ... }
apply_ask_changes(asks, changes) ==
    IF changes = <<>> THEN asks
    ELSE apply_ask_changes(apply_ask_change(asks, Head(changes)), Tail(changes))

\* ------------------------------------------------------------ handle_diff
\* mutant: the stale test written with < instead of <=
is_ignored_strict(book, diff) == diff.last_update_id < book.last_update_id

\* mutant: no diff is taken for stale
is_ignored_never(book, diff) == FALSE

\* if diff.last_update_id <= self.last_update_id { println!; return; }
is_ignored(book, diff) == diff.last_update_id <= book.last_update_id

\* mutant: only the "too far behind" half of the test
is_rejected_behind_only(book, diff) ==
    diff.last_update_id <= book.last_update_id + 1

\* if diff.first_update_id > L + 1 || diff.last_update_id <= L + 1 { panic!(..) }
is_rejected(book, diff) ==
    \/ diff.first_update_id > book.last_update_id + 1
    \/ diff.last_update_id <= book.last_update_id + 1

\* mutant: the book takes the diff's first id instead of its last
apply_diff_first_id(book, diff) ==
    [bids |-> apply_bid_changes(book.bids, diff.bids),
     asks |-> apply_ask_changes(book.asks, diff.asks),
     last_update_id |-> diff.first_update_id]

\* the two loops and the final self.last_update_id = diff.last_update_id
apply_diff(book, diff) ==
    [bids |-> apply_bid_changes(book.bids, diff.bids),
     asks |-> apply_ask_changes(book.asks, diff.asks),
     last_update_id |-> diff.last_update_id]

\* OrderBook::handle_diff: what the call did, and the book it leaves
handle_diff(book, diff) ==
    IF is_ignored(book, diff) THEN [outcome |-> "ignored", book |-> book]
    ELSE IF is_rejected(book, diff) THEN [outcome |-> "panic", book |-> book]
    ELSE [outcome |-> "applied", book |-> apply_diff(book, diff)]

\* OrderBook::new
OrderBook(bids, asks, last_update_id) ==
    [bids |-> bids, asks |-> asks, last_update_id |-> last_update_id]

\* mutant: the bid tip taken from the far end of the bid ladder
get_tips_last_bid(book) ==
    IF Len(book.bids) = 0 THEN [ok |-> FALSE, error |-> "No bids"]
    ELSE IF Len(book.asks) = 0 THEN [ok |-> FALSE, error |-> "No asks"]
    ELSE [ok |-> TRUE, bid |-> book.bids[Len(book.bids)], ask |-> book.asks[1]]

\* OrderBook::get_tips: Ok((first bid, first ask)), or Err on an empty side
\* (the bids are looked at first)
get_tips(book) ==
    IF Len(book.bids) = 0 THEN [ok |-> FALSE, error |-> "No bids"]
    ELSE IF Len(book.asks) = 0 THEN [ok |-> FALSE, error |-> "No asks"]
    ELSE [ok |-> TRUE, bid |-> book.bids[1], ask |-> book.asks[1]]

\* ----------------------------------------------------------------- inputs
SeqsUpTo(S, n) == UNION {[1..k -> S] : k \in 0..n}

\* a change is (price, quantity); quantity 0 asks for the removal of the price
Changes == Prices \X Quantities

\* the update ids a diff carries.  The feed numbers a diff's updates from
\* first_update_id up to last_update_id, so first <= last; handle_diff itself
\* does not test this.  Its tests compare ids with the book's id only, so the
\* snapshot id is fixed and the diff ids range above it.
IdRanges == {r \in UpdateIds \X UpdateIds : r[1] <= r[2]}

\* the change lists of a diff: at most MaxChanges changes over the two sides
ChangeLists ==
    UNION {{<<b, a>> : a \in SeqsUpTo(Changes, MaxChanges - Len(b))} :
              b \in SeqsUpTo(Changes, MaxChanges)}

\* OrderBookDiff values
Diffs ==
    {[bids |-> c[1], asks |-> c[2], first_update_id |-> r[1], last_update_id |-> r[2]] :
        c \in ChangeLists, r \in IdRanges}

RECURSIVE SortedDesc(_)
\* the prices of S, largest first
SortedDesc(S) ==
    IF S = {} THEN <<>>
    ELSE LET m == CHOOSE x \in S : \A y \in S : y <= x
         IN <<m>> \o SortedDesc(S \ {m})

Reverse(s) == [i \in 1..Len(s) |-> s[Len(s) + 1 - i]]

\* snapshot bids: distinct prices, highest first, positive quantities
BidSnapshots ==
    UNION {{[i \in 1..Cardinality(S) |-> <<SortedDesc(S)[i], q[SortedDesc(S)[i]]>>] :
                q \in [S -> 1..MaxQty]} : S \in SUBSET Prices}

\* snapshot asks: distinct prices, lowest first, positive quantities
AskSnapshots == {Reverse(b) : b \in BidSnapshots}

\* no diff is held
NoDiff == [bids |-> <<>>, asks |-> <<>>, first_update_id |-> -1, last_update_id |-> -1]

\* -------------------------------------------------------- execution price
\* the amount of a request arrives as text of at most MaxAmountLen characters
MaxAmountLen == 2

Digits == {"0", "1", "2", "3", "4", "5", "6", "7", "8", "9"}

\* a sign, the digits, and a character no number holds
AmountChars == Digits \cup {"-", "x"}

AmountTexts == SeqsUpTo(AmountChars, MaxAmountLen)

Operations == {"Buy", "Sell"}

DigitValue(c) ==
    CASE c = "0" -> 0 [] c = "1" -> 1 [] c = "2" -> 2 [] c = "3" -> 3 [] c = "4" -> 4
      [] c = "5" -> 5 [] c = "6" -> 6 [] c = "7" -> 7 [] c = "8" -> 8 [] c = "9" -> 9

RECURSIVE digits_value(_)
\* the number written by a run of digits, most significant first
digits_value(digits) ==
    IF digits = <<>> THEN 0
    ELSE 10 * digits_value(SubSeq(digits, 1, Len(digits) - 1))
         + DigitValue(digits[Len(digits)])

\* BigDecimal::from_str on a text of sign and digits: Ok(value) for an
\* optional "-" followed by at least one digit, Err for anything else
from_str(text) ==
    LET negative == text # <<>> /\ text[1] = "-"
        digits == IF negative THEN Tail(text) ELSE text
    IN IF digits = <<>> \/ \E i \in 1..Len(digits) : digits[i] \notin Digits
       THEN [ok |-> FALSE, value |-> 0]
       ELSE [ok |-> TRUE,
             value |-> IF negative THEN 0 - digits_value(digits)
                       ELSE digits_value(digits)]

abs(x) == IF x < 0 THEN 0 - x ELSE x

RECURSIVE gcd(_, _)
gcd(a, b) == IF b = 0 THEN a ELSE gcd(b, a % b)

\* total_cost / target_amount for a non-zero divisor: the exact quotient, kept
\* as the fraction in lowest terms with a positive denominator
quotient(total_cost, target_amount) ==
    LET g == gcd(abs(total_cost), abs(target_amount))
        sign == IF target_amount < 0 THEN 0 - 1 ELSE 1
    IN <<sign * (total_cost \div g), sign * (target_amount \div g)>>

\* mutant: the level that ends the walk is charged with its whole quantity
walk_level_whole_quantity(walk, level) ==
    IF level[2] < walk.remaining
    THEN [remaining |-> walk.remaining - level[2],
          total_cost |-> walk.total_cost + level[1] * level[2],
          broke |-> FALSE]
    ELSE [remaining |-> walk.remaining,
          total_cost |-> walk.total_cost + level[1] * level[2],
          broke |-> TRUE]

\* one pass of the loop body over a level (price, amount)
walk_level(walk, level) ==
    IF level[2] < walk.remaining
    THEN [remaining |-> walk.remaining - level[2],
          total_cost |-> walk.total_cost + level[1] * level[2],
          broke |-> FALSE]
    ELSE [remaining |-> walk.remaining,
          total_cost |-> walk.total_cost + level[1] * walk.remaining,
          broke |-> TRUE]

\* mutant: the walk stops after the first level
walk_depth_first_level(depth, walk) ==
    IF depth = <<>> THEN walk ELSE walk_level(walk, Head(depth))

RECURSIVE walk_depth(_, _)
\* the for loop over the depth, up to its break or the end of the depth
walk_depth(depth, walk) ==
    IF depth = <<>> \/ walk.broke THEN walk
    ELSE walk_depth(Tail(depth), walk_level(walk, Head(depth)))

\* the handler get_execution_price on the depth the book holds; the division
\* panics on a zero divisor
get_execution_price(book, operation, amount) ==
    LET depth == IF operation = "Buy" THEN book.asks ELSE book.bids
        target_amount == from_str(amount)
        total_cost == walk_depth(depth, [remaining |-> target_amount.value,
                                         total_cost |-> 0,
                                         broke |-> FALSE]).total_cost
    IN IF ~target_amount.ok
       THEN [status |-> "400", body |-> "Invalid amount", avg_price |-> <<>>]
       ELSE IF target_amount.value = 0
       THEN [status |-> "panic", body |-> "Division by zero", avg_price |-> <<>>]
       ELSE [status |-> "200", body |-> "Average Price: ",
             avg_price |-> quotient(total_cost, target_amount.value)]

\* no request is being served
NoRequest == [operation |-> "none", amount |-> <<>>]

NoResponse == [status |-> "none", body |-> "", avg_price |-> <<>>]

\* ------------------------------------------------------ orderbook manager
Pairs == {"BTCUSDT", "ETHUSDT"}

\* the tasks that call the client's get_tips / get_bids / get_asks; each makes
\* one call
MaxCallers == 2

Callers == 1..MaxCallers

\* the channel is unbounded; the runs hold at most MaxQueue messages in it
MaxQueue == 2

\* the manager runs trade one bid level and one ask level
ManagerBidPrice == 1

ManagerAskPrice == 2

\* the snapshots the manager is started with: one level a side
ManagerBooks ==
    {OrderBook(b, a, SnapshotId) :
        b \in {s \in BidSnapshots : s = <<<<ManagerBidPrice, 1>>>>},
        a \in {s \in AskSnapshots : s = <<<<ManagerAskPrice, 1>>>>}}

\* the diffs the websocket task sends: the bid level removed; the ids are the
\* first update alone, the first two updates, or the two updates after those
ManagerDiffs ==
    {d \in Diffs :
        /\ d.asks = <<>>
        /\ d.bids = <<<<ManagerBidPrice, 0>>>>
        /\ (d.first_update_id - SnapshotId) % 2 = 1
        /\ d.last_update_id - d.first_update_id <= 1
        /\ d.last_update_id # SnapshotId + 3}

Queries == {"Tips", "Bids", "Asks"}

\* nothing is on record about what handling a message is due to do
NoDue == [outcome |-> "none", book |-> OrderBook(<<>>, <<>>, SnapshotId)]

\* OrderbookMessage::OrderbookDiff(pair, diff).  Two records are kept beside
\* the message: due, what handle_diff is due to do with it once every message
\* sent before it has been handled, and buffered, whether it was sent before
\* the manager was started
DiffMessage(pair, d) ==
    [type |-> "OrderbookDiff", pair |-> pair, diff |-> d, resp |-> 0,
     due |-> NoDue, buffered |-> FALSE]

\* OrderbookMessage::Tips / Bids / Asks (pair, resp), resp the sender half of
\* the caller's oneshot channel
QueryMessage(query, pair, caller) ==
    [type |-> query, pair |-> pair, diff |-> NoDiff, resp |-> caller,
     due |-> NoDue, buffered |-> FALSE]

NoTips == [ok |-> FALSE, error |-> "none"]

\* no value
NoReply == [kind |-> "none", tips |-> NoTips, depth |-> <<>>]

\* the value the manager sends for a query on a book
reply_for(book, query) ==
    CASE query = "Tips" -> [kind |-> "tips", tips |-> get_tips(book), depth |-> <<>>]
      [] query = "Bids" -> [kind |-> "depth", tips |-> NoTips, depth |-> book.bids]
      [] query = "Asks" -> [kind |-> "depth", tips |-> NoTips, depth |-> book.asks]

\* mutant: of the diffs queued the newest is taken first
recv_last_diff_first(queue) ==
    LET diffs == {i \in 1..Len(queue) : queue[i].type = "OrderbookDiff"}
        pos == IF diffs = {} THEN 1
               ELSE CHOOSE i \in diffs : \A j \in diffs : j <= i
    IN [msg |-> queue[pos], rest |-> remove(queue, pos)]

\* mutant: the newest message is taken first
recv_newest_first(queue) ==
    [msg |-> queue[Len(queue)], rest |-> SubSeq(queue, 1, Len(queue) - 1)]

\* rx.recv() on a channel that holds messages: the oldest one
recv(queue) == [msg |-> Head(queue), rest |-> Tail(queue)]

\* mutant: the value is not sent
send_lost(caller, value) == caller

\* mutant: the value reaches a caller that has dropped its receiver
send_to_dropped(caller, value) ==
    [caller EXCEPT !.oneshot = "sent", !.reply = value,
                   !.replies = caller.replies + 1]

\* resp.send(value) with the result ignored: the value is put on the oneshot
\* channel unless its receiver has been dropped
send(caller, value) ==
    IF caller.oneshot = "open"
    THEN [caller EXCEPT !.oneshot = "sent", !.reply = value,
                        !.replies = caller.replies + 1]
    ELSE caller

\* mutant: the book is stored for every pair
set_book_of_all(books, pair, book) == [p \in Pairs |-> book]

\* the arm of match pair: the book of the message's pair is the one handled
set_book(books, pair, book) == [books EXCEPT ![pair] = book]

\* mutant: a send never fails
is_closed_never(task) == FALSE

\* tx.send fails once the receiver is gone: the manager task has ended, by
\* panic or by return, and rx went with it
is_closed(task) == task \in {"panicked", "finished"}

RECURSIVE books_after(_, _)
\* the books once the messages queued, oldest first, have been handled, and
\* whether the manager is still alive then
books_after(books, queue) ==
    IF queue = <<>> THEN [alive |-> TRUE, books |-> books]
    ELSE LET msg == Head(queue)
         IN IF msg.type # "OrderbookDiff" THEN books_after(books, Tail(queue))
            ELSE LET r == handle_diff(books[msg.pair], msg.diff)
                 IN IF r.outcome = "panic" THEN [alive |-> FALSE, books |-> books]
                    ELSE books_after([books EXCEPT ![msg.pair] = r.book],
                                     Tail(queue))

\* a task that has not called the client yet
IdleCaller ==
    [state |-> "idle", query |-> "none", pair |-> "none", oneshot |-> "none",
     reply |-> NoReply, replies |-> 0, expected |-> NoReply, behind_diff |-> FALSE]

\* ------------------------------------------------------------------ state
\* orderbook: the OrderBook value (bids, asks, last_update_id)
\* outcome:   "none" while no call is under observation, else what the last
\*            handle_diff call did: "applied", "ignored" or "panic"
\* diff, pre: the diff that call consumed and the book it was entered with
\* accepted:  the diffs handle_diff has applied to the book (kept by ReplaySpec)
\* request, response: the execution-price request being served and what the
\*            handler answers
\* manager:   the manager task: "starting" until the snapshots are fetched,
\*            then "running", "panicked" once handle_diff has panicked in it
\* orderbooks: the manager's book of each pair
\* rx:        the messages in the channel, oldest first
\* callers:   each calling task: where it is in its call, its oneshot channel
\*            ("open", "sent", "closed" when the sender was dropped unused,
\*            "dropped" when the receiver was), the reply, the number of values
\*            sent to it, the reply its query is due when it is sent
\*            (expected: the one computed once the messages queued before it
\*            are handled) and whether the diffs queued before it change that
\*            reply (behind_diff)
\* ws:        the websocket reader task, "reading", "panicked", or "ended"
\*            with its stream; it holds a sender while it reads
\* client:    the BinanceClient the calling tasks share, with its sender:
\*            "alive" or "dropped"
\* manager is "finished" once its loop has returned.
VARIABLES orderbook, outcome, diff, pre, accepted, request, response,
          manager, orderbooks, rx, callers, ws, client

bookVars == <<orderbook, outcome, diff, pre>>

priceVars == <<request, response>>

replayVars == <<accepted>>

managerVars == <<manager, orderbooks, rx, callers, ws, client>>

vars == <<orderbook, outcome, diff, pre, accepted, request, response,
          manager, orderbooks, rx, callers, ws, client>>

\* OrderBook::new on a snapshot; no diff handled, no request served yet
Init ==
    /\ \E b \in BidSnapshots, a \in AskSnapshots :
          orderbook = OrderBook(b, a, SnapshotId)
    /\ outcome = "none"
    /\ diff = NoDiff
    /\ pre = orderbook
    /\ accepted = {}
    /\ request = NoRequest
    /\ response = NoResponse
    /\ manager = "starting"
    /\ orderbooks = [pair \in Pairs |-> OrderBook(<<>>, <<>>, SnapshotId)]
    /\ rx = <<>>
    /\ callers = [c \in Callers |-> IdleCaller]
    /\ ws = "reading"
    /\ client = "alive"

\* orderbook.handle_diff(d), run to its end; a panic ends the caller
HandleDiff ==
    /\ outcome = "none"
    /\ \E d \in Diffs :
          LET r == handle_diff(orderbook, d)
          IN /\ orderbook' = r.book
             /\ outcome' = r.outcome
             /\ diff' = d
             /\ pre' = orderbook
    /\ UNCHANGED <<accepted, request, response, managerVars>>

\* handle_diff has returned: the diff it consumed is dropped and the caller
\* goes on with the book as it is now (diff and pre only record the last call)
Return ==
    /\ outcome \in {"applied", "ignored"}
    /\ outcome' = "none"
    /\ diff' = NoDiff
    /\ pre' = orderbook
    /\ UNCHANGED <<orderbook, accepted, request, response, managerVars>>

Next == HandleDiff \/ Return

Spec == Init /\ [][Next]_vars

\* ------------------------------------------------------- replayed diffs
\* the diffs of the replay runs carry at most MaxReplayChanges changes
MaxReplayChanges == 1

ReplayDiffs == {d \in Diffs : Len(d.bids) + Len(d.asks) <= MaxReplayChanges}

\* the snapshots of the replay runs hold at most MaxReplayLevels levels a side
MaxReplayLevels == 1

ReplayInit ==
    /\ Init
    /\ Len(orderbook.bids) <= MaxReplayLevels
    /\ Len(orderbook.asks) <= MaxReplayLevels

\* orderbook.handle_diff(d) for a diff the book has not applied before, run to
\* its end; the diff is remembered when the book applies it
Accept ==
    /\ outcome = "none"
    /\ \E d \in ReplayDiffs \ accepted :
          LET r == handle_diff(orderbook, d)
          IN /\ orderbook' = r.book
             /\ pre' = r.book
             /\ outcome' = IF r.outcome = "panic" THEN "panic" ELSE "none"
             /\ accepted' = IF r.outcome = "applied" THEN accepted \cup {d}
                            ELSE accepted
    /\ UNCHANGED <<diff, request, response, managerVars>>

\* orderbook.handle_diff(d) for a diff the book applied earlier
Replay ==
    /\ outcome = "none"
    /\ \E d \in accepted :
          LET r == handle_diff(orderbook, d)
          IN /\ orderbook' = r.book
             /\ outcome' = r.outcome
             /\ diff' = d
             /\ pre' = orderbook
    /\ UNCHANGED <<accepted, request, response, managerVars>>

ReplayNext == Accept \/ Replay \/ Return

ReplaySpec == ReplayInit /\ [][ReplayNext]_vars

\* ----------------------------------------------- execution-price requests
\* GET /execution-price served to its end on the book as it stands: the depth
\* is the clone of the asks (Buy) or bids (Sell) the manager replies with
GetExecutionPrice ==
    /\ request = NoRequest
    /\ \E operation \in Operations, amount \in AmountTexts :
          /\ request' = [operation |-> operation, amount |-> amount]
          /\ response' = get_execution_price(orderbook, operation, amount)
    /\ UNCHANGED <<bookVars, accepted, managerVars>>

\* the request's task has ended, with its response or with its panic
Respond ==
    /\ request # NoRequest
    /\ request' = NoRequest
    /\ response' = NoResponse
    /\ UNCHANGED <<bookVars, accepted, managerVars>>

PriceNext == GetExecutionPrice \/ Respond

PriceSpec == Init /\ [][PriceNext]_vars

\* ------------------------------------------------------ orderbook manager
\* BinanceClient::new: the channel is open, the websocket reader is spawned,
\* the snapshots the manager will be started with are being fetched
ManagerInit ==
    /\ orderbook = OrderBook(<<>>, <<>>, SnapshotId)
    /\ outcome = "none"
    /\ diff = NoDiff
    /\ pre = orderbook
    /\ accepted = {}
    /\ request = NoRequest
    /\ response = NoResponse
    /\ manager = "starting"
    /\ orderbooks \in [Pairs -> ManagerBooks]
    /\ rx = <<>>
    /\ callers = [c \in Callers |-> IdleCaller]
    /\ ws = "reading"
    /\ client = "alive"

\* start_orderbook_manager is called with the two snapshots
StartManager ==
    /\ manager = "starting"
    /\ manager' = "running"
    /\ UNCHANGED <<bookVars, replayVars, priceVars, orderbooks, rx, callers, ws,
                   client>>

\* handle_ws_message for a text message that parses to a diff: the diff is
\* sent, and the unwrap of a failed send panics
WsSend ==
    /\ ws = "reading"
    /\ \E pair \in Pairs, d \in ManagerDiffs :
          IF is_closed(manager)
          THEN /\ ws' = "panicked"
               /\ UNCHANGED rx
          ELSE /\ Len(rx) < MaxQueue
               /\ LET before == books_after(orderbooks, rx)
                      r == handle_diff(before.books[pair], d)
                      due == IF before.alive THEN r
                             ELSE [outcome |-> "never", book |-> before.books[pair]]
                  IN rx' = Append(rx, [DiffMessage(pair, d) EXCEPT
                                          !.due = due,
                                          !.buffered = (manager = "starting")])
               /\ UNCHANGED ws
    /\ UNCHANGED <<bookVars, replayVars, priceVars, manager, orderbooks, callers,
                   client>>

\* the websocket stream is over, or a text message that is no JSON object
\* with a data field has made the reader's unwrap panic: the reader task ends
\* and its sender is dropped
WsEnd ==
    /\ ws = "reading"
    /\ ws' = "ended"
    /\ UNCHANGED <<bookVars, replayVars, priceVars, manager, orderbooks, rx,
                   callers, client>>

\* the application state is dropped, and the client's sender with it; a task
\* inside a call holds the state until the call is over
DropClient ==
    /\ client = "alive"
    /\ \A c \in Callers : callers[c].state # "waiting"
    /\ client' = "dropped"
    /\ UNCHANGED <<bookVars, replayVars, priceVars, manager, orderbooks, rx,
                   callers, ws>>

\* BinanceClient::get_tips / get_bids / get_asks up to the await: the oneshot
\* channel is made and the message sent; a failed send returns Err
Call(c) ==
    /\ callers[c].state = "idle"
    /\ client = "alive"
    /\ \E query \in Queries, pair \in Pairs :
          IF is_closed(manager)
          THEN /\ callers' = [callers EXCEPT ![c] =
                                 [IdleCaller EXCEPT !.state = "send_failed"]]
               /\ UNCHANGED rx
          ELSE /\ Len(rx) < MaxQueue
               /\ rx' = Append(rx, [QueryMessage(query, pair, c) EXCEPT
                                       !.buffered = (manager = "starting")])
               /\ LET due == books_after(orderbooks, rx)
                      expected == IF due.alive
                                  THEN reply_for(due.books[pair], query)
                                  ELSE NoReply
                  IN callers' = [callers EXCEPT ![c] =
                        [@ EXCEPT !.state = "waiting", !.query = query,
                                  !.pair = pair, !.oneshot = "open",
                                  !.expected = expected,
                                  !.behind_diff =
                                     expected # reply_for(orderbooks[pair], query)]]
    /\ UNCHANGED <<bookVars, replayVars, priceVars, manager, orderbooks, ws,
                   client>>

\* one turn of the manager's loop: the oldest message is received and its
\* match arm run to the end.  A panic in handle_diff ends the task and drops
\* the receiver with the messages still queued and their reply senders; the
\* call that panicked stays on record in outcome, diff and pre.
ManagerStep ==
    /\ manager = "running"
    /\ rx # <<>>
    /\ LET msg == recv(rx).msg
       IN IF msg.type = "OrderbookDiff"
          THEN LET r == handle_diff(orderbooks[msg.pair], msg.diff)
               IN IF r.outcome = "panic"
                  THEN /\ manager' = "panicked"
                       /\ rx' = <<>>
                       /\ callers' = [c \in Callers |->
                             IF callers[c].oneshot = "open"
                             THEN [callers[c] EXCEPT !.oneshot = "closed"]
                             ELSE callers[c]]
                       /\ outcome' = "panic"
                       /\ diff' = msg.diff
                       /\ pre' = orderbooks[msg.pair]
                       /\ UNCHANGED <<orderbooks, orderbook>>
                  ELSE /\ orderbooks' = set_book(orderbooks, msg.pair, r.book)
                       /\ rx' = recv(rx).rest
                       /\ UNCHANGED <<manager, callers, bookVars>>
          ELSE /\ callers' = [callers EXCEPT ![msg.resp] =
                     send(@, reply_for(orderbooks[msg.pair], msg.type))]
               /\ rx' = recv(rx).rest
               /\ UNCHANGED <<manager, orderbooks, bookVars>>
    /\ UNCHANGED <<replayVars, priceVars, ws, client>>

\* rx.recv() returns None: the channel is empty and every sender is dropped;
\* the loop is left and the task returns
ManagerFinish ==
    /\ manager = "running"
    /\ rx = <<>>
    /\ ws # "reading"
    /\ client = "dropped"
    /\ manager' = "finished"
    /\ UNCHANGED <<bookVars, replayVars, priceVars, orderbooks, rx, callers, ws,
                   client>>

\* resp_rx.await completes: the value is unwrapped and returned; the unwrap
\* panics when the sender was dropped, and get_tips unwraps the tips result
\* once more
Receive(c) ==
    /\ callers[c].state = "waiting"
    /\ callers[c].oneshot \in {"sent", "closed"}
    /\ callers' = [callers EXCEPT ![c] =
          [IdleCaller EXCEPT !.state =
                       IF callers[c].oneshot = "closed" THEN "panicked"
                       ELSE IF callers[c].query = "Tips" /\ ~callers[c].reply.tips.ok
                       THEN "panicked"
                       ELSE "returned"]]
    /\ UNCHANGED <<bookVars, replayVars, priceVars, manager, orderbooks, rx, ws,
                   client>>

\* the calling task is dropped while it awaits the reply: the receiver half
\* of its oneshot channel goes with it (the number of values sent to it so
\* far stays on record)
GiveUp(c) ==
    /\ callers[c].state = "waiting"
    /\ callers' = [callers EXCEPT ![c] =
          [IdleCaller EXCEPT !.state = "gave_up", !.oneshot = "dropped",
                             !.replies = callers[c].replies]]
    /\ UNCHANGED <<bookVars, replayVars, priceVars, manager, orderbooks, rx, ws,
                   client>>

ManagerNext ==
    \/ StartManager
    \/ WsSend
    \/ WsEnd
    \/ DropClient
    \/ ManagerStep
    \/ ManagerFinish
    \/ \E c \in Callers : Call(c)
    \/ \E c \in Callers : Receive(c)
    \/ \E c \in Callers : GiveUp(c)

ManagerSpec == ManagerInit /\ [][ManagerNext]_vars

\* the runtime polls a spawned task that is ready: the manager is started
\* once the snapshots are in, and a running manager takes the next message
ManagerFairSpec ==
    /\ ManagerSpec
    /\ WF_vars(StartManager)
    /\ WF_vars(ManagerStep)
    /\ WF_vars(ManagerFinish)

\* =================================================================== claims
\* a handle_diff call has run and is under observation
Called == outcome # "none"

\* the entries of a ladder, as a set of (price, quantity)
Levels(depth) == {depth[i] : i \in 1..Len(depth)}

\* the prices of a ladder or of a change list
PricesOf(depth) == {depth[i][1] : i \in 1..Len(depth)}

StrictlyDescending(depth) ==
    \A i \in 1..(Len(depth) - 1) : depth[i][1] > depth[i + 1][1]

StrictlyAscending(depth) ==
    \A i \in 1..(Len(depth) - 1) : depth[i][1] < depth[i + 1][1]

\* ---------------------------------------------------------------------- C1
\* C1: a diff with F <= L+1 and U >= L+1 (the boundary U = L+1 included) is
\* applied: handle_diff does not abort, both change lists are applied and the
\* book's last_update_id becomes U.
C1_ValidNextDiffIsApplied ==
    (/\ Called
     /\ diff.first_update_id <= pre.last_update_id + 1
     /\ diff.last_update_id >= pre.last_update_id + 1)
    => /\ outcome = "applied"
       /\ orderbook.last_update_id = diff.last_update_id
       /\ orderbook.bids = apply_bid_changes(pre.bids, diff.bids)
       /\ orderbook.asks = apply_ask_changes(pre.asks, diff.asks)

\* ---------------------------------------------------------------------- C2
\* C2: a diff whose last_update_id is <= the book's last_update_id is dropped
\* without error, and bids, asks and last_update_id are what they were,
\* whatever the diff's first_update_id and change lists are.
C2_StaleDiffIsDropped ==
    (Called /\ diff.last_update_id <= pre.last_update_id)
    => (outcome = "ignored" /\ orderbook = pre)

\* a stale diff that carries changes on both sides, one of which would alter
\* the book, and whose first id differs from its last, has been dropped
C2_Witness ==
    /\ outcome = "ignored"
    /\ diff.last_update_id <= pre.last_update_id
    /\ diff.first_update_id < diff.last_update_id
    /\ diff.bids # <<>>
    /\ diff.asks # <<>>
    /\ apply_diff(pre, diff).bids # pre.bids

\* ---------------------------------------------------------------------- C3
\* C3: a diff with first_update_id > L+1 makes handle_diff panic, and the book
\* (bids, asks, last_update_id) is left as it was before the call.
C3_GapPanicsBeforeAnyChange ==
    (Called /\ diff.first_update_id > pre.last_update_id + 1)
    => (outcome = "panic" /\ orderbook = pre)

\* a gapped diff whose changes would have altered both ladders has panicked
C3_Witness ==
    /\ outcome = "panic"
    /\ diff.first_update_id > pre.last_update_id + 1
    /\ apply_diff(pre, diff).bids # pre.bids
    /\ apply_diff(pre, diff).asks # pre.asks

\* ---------------------------------------------------------------------- C4
\* C4: over any sequence of handle_diff calls last_update_id never decreases;
\* after a call that applies a diff it is that diff's last_update_id, after a
\* call that drops a diff it is what it was.
C4_LastUpdateIdAdvances ==
    Called =>
       /\ orderbook.last_update_id >= pre.last_update_id
       /\ outcome = "applied" => orderbook.last_update_id = diff.last_update_id
       /\ outcome = "ignored" => orderbook.last_update_id = pre.last_update_id

\* a second diff has been applied, one that starts at or below the book's id
C4_Witness ==
    /\ outcome = "applied"
    /\ pre.last_update_id > SnapshotId
    /\ diff.first_update_id <= pre.last_update_id
    /\ orderbook.last_update_id > pre.last_update_id

\* ---------------------------------------------------------------------- C5
\* C5: from a snapshot whose bids are strictly descending by price, the bid
\* ladder is strictly descending after every applied diff, whatever the order
\* of the change list, so no bid price appears twice.
C5_BidsStrictlyDescending ==
    /\ StrictlyDescending(orderbook.bids)
    /\ Cardinality(PricesOf(orderbook.bids)) = Len(orderbook.bids)

\* a second applied diff, its two bid changes not in ladder order, has put a
\* new price between two existing bids
C5_Witness ==
    /\ outcome = "applied"
    /\ pre.last_update_id > SnapshotId
    /\ Len(diff.bids) = 2
    /\ diff.bids[1][1] < diff.bids[2][1]
    /\ Len(pre.bids) = 2
    /\ Len(orderbook.bids) = 3
    /\ orderbook.bids[2][1] \notin PricesOf(pre.bids)

\* ---------------------------------------------------------------------- C6
\* C6: from a snapshot whose asks are strictly ascending by price, the ask
\* ladder is strictly ascending after every applied diff, whatever the order
\* of the change list, so no ask price appears twice.
C6_AsksStrictlyAscending ==
    /\ StrictlyAscending(orderbook.asks)
    /\ Cardinality(PricesOf(orderbook.asks)) = Len(orderbook.asks)

\* a second applied diff, its two ask changes not in ladder order, has put a
\* new price between two existing asks
C6_Witness ==
    /\ outcome = "applied"
    /\ pre.last_update_id > SnapshotId
    /\ Len(diff.asks) = 2
    /\ diff.asks[1][1] > diff.asks[2][1]
    /\ Len(pre.asks) = 2
    /\ Len(orderbook.asks) = 3
    /\ orderbook.asks[2][1] \notin PricesOf(pre.asks)

\* ---------------------------------------------------------------------- C7
\* C7: from a snapshot with positive quantities, no ladder ever holds an entry
\* of quantity zero: a change of quantity 0 only removes.
C7_NoZeroQuantityStored ==
    /\ \A i \in 1..Len(orderbook.bids) : orderbook.bids[i][2] # 0
    /\ \A i \in 1..Len(orderbook.asks) : orderbook.asks[i][2] # 0

\* an applied diff carried a zero change for a price the bids held and a zero
\* change for a price the asks did not hold
C7_Witness ==
    /\ outcome = "applied"
    /\ \E i \in 1..Len(diff.bids) :
          diff.bids[i][2] = 0 /\ diff.bids[i][1] \in PricesOf(pre.bids)
    /\ \E i \in 1..Len(diff.asks) :
          diff.asks[i][2] = 0 /\ diff.asks[i][1] \notin PricesOf(pre.asks)
    /\ Len(orderbook.bids) = Len(pre.bids) - 1

\* ---------------------------------------------------------------------- C8
RECURSIVE RefLevels(_, _)
\* the price -> quantity map after the changes, taken in the given order:
\* quantity 0 deletes the price, a positive quantity sets it
RefLevels(levels, changes) ==
    IF changes = <<>> THEN levels
    ELSE LET c == Head(changes)
             others == {e \in levels : e[1] # c[1]}
         IN RefLevels(IF c[2] = 0 THEN others ELSE others \cup {c}, Tail(changes))

\* C8: after an applied diff each ladder, as a price -> quantity map, is the
\* old map updated by the side's changes in the given order, listed in the
\* side's order, and its length is the number of prices that remain.
C8_MatchesReferenceModel ==
    outcome = "applied" =>
       /\ Levels(orderbook.bids) = RefLevels(Levels(pre.bids), diff.bids)
       /\ Len(orderbook.bids) = Cardinality(RefLevels(Levels(pre.bids), diff.bids))
       /\ StrictlyDescending(orderbook.bids)
       /\ Levels(orderbook.asks) = RefLevels(Levels(pre.asks), diff.asks)
       /\ Len(orderbook.asks) = Cardinality(RefLevels(Levels(pre.asks), diff.asks))
       /\ StrictlyAscending(orderbook.asks)

\* ---------------------------------------------------------------------- C9
\* the change at position k of a list is (p, 0) for a price p that the ladder
\* does not hold when the change is reached
ZeroForAbsent(depth, change) ==
    change[2] = 0 /\ change[1] \notin PricesOf(depth)

\* C9: in an applied diff a change (p, 0) for a price absent from its ladder
\* leaves that ladder as it is, and a diff made only of such changes changes
\* nothing in the book but last_update_id.
C9_ZeroForAbsentPriceIsNoOp ==
    outcome = "applied" =>
       /\ \A k \in 1..Len(diff.bids) :
             LET reached == apply_bid_changes(pre.bids, SubSeq(diff.bids, 1, k - 1))
             IN ZeroForAbsent(reached, diff.bids[k])
                => apply_bid_changes(pre.bids, SubSeq(diff.bids, 1, k)) = reached
       /\ \A k \in 1..Len(diff.asks) :
             LET reached == apply_ask_changes(pre.asks, SubSeq(diff.asks, 1, k - 1))
             IN ZeroForAbsent(reached, diff.asks[k])
                => apply_ask_changes(pre.asks, SubSeq(diff.asks, 1, k)) = reached
       /\ (/\ \A k \in 1..Len(diff.bids) : ZeroForAbsent(pre.bids, diff.bids[k])
           /\ \A k \in 1..Len(diff.asks) : ZeroForAbsent(pre.asks, diff.asks[k]))
          => /\ orderbook.bids = pre.bids
             /\ orderbook.asks = pre.asks
             /\ orderbook.last_update_id = diff.last_update_id

\* an applied diff made of one zero change per side, each for a price its
\* non-empty ladder did not hold
C9_Witness ==
    /\ outcome = "applied"
    /\ Len(diff.bids) = 1 /\ ZeroForAbsent(pre.bids, diff.bids[1])
    /\ Len(diff.asks) = 1 /\ ZeroForAbsent(pre.asks, diff.asks[1])
    /\ pre.bids # <<>>
    /\ pre.asks # <<>>
    /\ orderbook.last_update_id > pre.last_update_id

\* --------------------------------------------------------------------- C10
\* every change of the list restates an entry the ladder holds
RestatesLevels(depth, changes) == Levels(changes) \subseteq Levels(depth)

\* C10: an applied diff whose bid and ask changes set existing prices to
\* exactly their current quantities (all of them, in particular) leaves both
\* ladders identical, entry by entry; only last_update_id advances.
C10_RestatingDiffKeepsLadders ==
    (/\ outcome = "applied"
     /\ RestatesLevels(pre.bids, diff.bids)
     /\ RestatesLevels(pre.asks, diff.asks))
    => /\ orderbook.bids = pre.bids
       /\ orderbook.asks = pre.asks
       /\ orderbook.last_update_id = diff.last_update_id
       /\ orderbook.last_update_id > pre.last_update_id

\* an applied diff restated every entry of a two-entry bid ladder, not in
\* ladder order, the ask ladder being empty
C10_Witness ==
    /\ outcome = "applied"
    /\ Len(pre.bids) = 2
    /\ Levels(diff.bids) = Levels(pre.bids)
    /\ diff.bids # pre.bids
    /\ Levels(diff.asks) = Levels(pre.asks)

\* --------------------------------------------------------------------- C12
\* the orderings of a change list
Orderings(changes) ==
    {[i \in 1..Len(changes) |-> changes[f[i]]] :
        f \in {g \in [1..Len(changes) -> 1..Len(changes)] :
                  \A i, j \in 1..Len(changes) : g[i] = g[j] => i = j}}

DistinctPrices(changes) == Cardinality(PricesOf(changes)) = Len(changes)

\* C12: for an applied diff whose changes on a side have pairwise distinct
\* prices, every permutation of that side's change list gives the same ladder.
C12_ChangeOrderIsIrrelevant ==
    outcome = "applied" =>
       /\ DistinctPrices(diff.bids) =>
             \A perm \in Orderings(diff.bids) :
                apply_bid_changes(pre.bids, perm) = orderbook.bids
       /\ DistinctPrices(diff.asks) =>
             \A perm \in Orderings(diff.asks) :
                apply_ask_changes(pre.asks, perm) = orderbook.asks

\* --------------------------------------------------------------------- C13
\* the largest / smallest price of a non-empty ladder
MaxPriceOf(depth) == CHOOSE p \in PricesOf(depth) : \A r \in PricesOf(depth) : r <= p

MinPriceOf(depth) == CHOOSE p \in PricesOf(depth) : \A r \in PricesOf(depth) : p <= r

\* C13: after an applied diff that leaves both ladders non-empty, get_tips
\* returns the first bid entry and the first ask entry, which are the
\* highest-priced bid and the lowest-priced ask with the quantities the
\* ladders hold for them.
C13_TipsAreTheBestLevels ==
    (outcome = "applied" /\ orderbook.bids # <<>> /\ orderbook.asks # <<>>)
    => LET tips == get_tips(orderbook)
       IN /\ tips.ok
          /\ tips.bid = orderbook.bids[1]
          /\ tips.ask = orderbook.asks[1]
          /\ tips.bid[1] = MaxPriceOf(orderbook.bids)
          /\ tips.ask[1] = MinPriceOf(orderbook.asks)
          /\ tips.bid \in Levels(orderbook.bids)
          /\ tips.ask \in Levels(orderbook.asks)

\* a second applied diff has put a new best bid and a new best ask in front of
\* ladders that held other entries
C13_Witness ==
    /\ outcome = "applied"
    /\ pre.last_update_id > SnapshotId
    /\ Len(orderbook.bids) >= 2
    /\ Len(orderbook.asks) >= 2
    /\ pre.bids # <<>>
    /\ pre.asks # <<>>
    /\ get_tips(orderbook).bid[1] \notin PricesOf(pre.bids)
    /\ get_tips(orderbook).ask[1] \notin PricesOf(pre.asks)

\* --------------------------------------------------------------------- C20
\* the change sets a price the ladder does not hold when the change is reached
SetsAbsentPrice(depth, change) ==
    change[2] > 0 /\ change[1] \notin PricesOf(depth)

\* the ladder after is the ladder before with the change's entry added
\* somewhere: one entry more, the other entries in their old order
InsertedInto(before, after, change) ==
    /\ change \in Levels(after)
    /\ Len(after) = Len(before) + 1
    /\ \E k \in 1..Len(after) : after[k] = change /\ remove(after, k) = before

\* C20: in an applied diff every change (p, q) with q > 0 and p absent from the
\* ladder (an empty ladder included) leaves a ladder that holds (p, q), is one
\* entry longer, and keeps the other entries in their relative order.
C20_AbsentPriceIsInserted ==
    outcome = "applied" =>
       /\ \A k \in 1..Len(diff.bids) :
             LET reached == apply_bid_changes(pre.bids, SubSeq(diff.bids, 1, k - 1))
             IN SetsAbsentPrice(reached, diff.bids[k])
                => InsertedInto(reached,
                                apply_bid_changes(pre.bids, SubSeq(diff.bids, 1, k)),
                                diff.bids[k])
       /\ \A k \in 1..Len(diff.asks) :
             LET reached == apply_ask_changes(pre.asks, SubSeq(diff.asks, 1, k - 1))
             IN SetsAbsentPrice(reached, diff.asks[k])
                => InsertedInto(reached,
                                apply_ask_changes(pre.asks, SubSeq(diff.asks, 1, k)),
                                diff.asks[k])

\* --------------------------------------------------------------------- C17
\* the depth an execution-price request walks
WalkedDepth == IF request.operation = "Buy" THEN orderbook.asks ELSE orderbook.bids

RECURSIVE TotalQuantity(_)
TotalQuantity(depth) ==
    IF depth = <<>> THEN 0 ELSE Head(depth)[2] + TotalQuantity(Tail(depth))

\* what level i of the depth fills of amount A: its quantity while that is
\* less than what the levels before it left, else what they left
Filled(depth, i, A) ==
    LET left == A - TotalQuantity(SubSeq(depth, 1, i - 1))
    IN IF left <= 0 THEN 0
       ELSE IF depth[i][2] < left THEN depth[i][2] ELSE left

RECURSIVE CostOfLevels(_, _, _)
\* the sum over levels 1..i of price times filled quantity
CostOfLevels(depth, i, A) ==
    IF i = 0 THEN 0
    ELSE CostOfLevels(depth, i - 1, A) + depth[i][1] * Filled(depth, i, A)

\* C17: for a target amount A > 0 a Buy walks the asks from the lowest price up
\* and a Sell the bids from the highest price down; a level (p, q) with q less
\* than the remaining amount costs p*q, the first level with q at least the
\* remaining amount costs p*remaining and ends the walk; the answer is the
\* total cost divided by A.  Asks [(100,1),(101,2),(103,10)] and A = 2 cost 201.
C17_ExecutionPriceIsCostOverAmount ==
    /\ (request # NoRequest /\ from_str(request.amount).ok
                            /\ from_str(request.amount).value > 0)
       => LET A == from_str(request.amount).value
          IN /\ request.operation = "Buy" => StrictlyAscending(WalkedDepth)
             /\ request.operation = "Sell" => StrictlyDescending(WalkedDepth)
             /\ response.status = "200"
             /\ response.avg_price[1] * A
                   = CostOfLevels(WalkedDepth, Len(WalkedDepth), A) * response.avg_price[2]
             /\ response.avg_price[2] > 0
    /\ get_execution_price(OrderBook(<<>>, <<<<100, 1>>, <<101, 2>>, <<103, 10>>>>, 0),
                           "Buy", <<"2">>).avg_price = <<201, 2>>

\* a Buy has been answered whose walk took the whole first ask level and ended
\* inside the second
C17_Witness ==
    /\ request.operation = "Buy"
    /\ response.status = "200"
    /\ Len(orderbook.asks) >= 2
    /\ orderbook.asks[1][2] < from_str(request.amount).value
    /\ from_str(request.amount).value < orderbook.asks[1][2] + orderbook.asks[2][2]

\* --------------------------------------------------------------------- C18
\* C18: a request whose amount is unparsable, zero or negative is answered
\* 400 Invalid amount and gets no average price; amount 0 never reaches the
\* division.
C18_BadAmountIsRejected ==
    (request # NoRequest /\ (~from_str(request.amount).ok
                             \/ from_str(request.amount).value <= 0))
    => /\ response.status = "400"
       /\ response.body = "Invalid amount"
       /\ response.avg_price = <<>>

\* --------------------------------------------------------------------- C11
\* C11: once a book has applied diffs D1..Dn, handing any of them to
\* handle_diff again, in any order and any number of times, leaves bids, asks
\* and last_update_id as they were and does not panic.
C11_ReplayChangesNothing ==
    (Called /\ diff \in accepted)
    => /\ outcome = "ignored"
       /\ orderbook = pre

\* the older of two applied diffs has been replayed, and it sets a level the
\* book no longer holds
C11_Witness ==
    /\ outcome = "ignored"
    /\ diff \in accepted
    /\ \E later \in accepted : later.last_update_id > diff.last_update_id
    /\ \/ \E i \in 1..Len(diff.bids) :
             diff.bids[i][2] > 0 /\ diff.bids[i] \notin Levels(orderbook.bids)
       \/ \E i \in 1..Len(diff.asks) :
             diff.asks[i][2] > 0 /\ diff.asks[i] \notin Levels(orderbook.asks)

\* --------------------------------------------------------------------- C14
\* C14: a caller whose Tips query is answered with the empty-side error
\* receives that error as the result of its call; its task does not abort.
C14_EmptySideIsReturned ==
    [][\A c \in Callers :
          (/\ callers[c].state = "waiting"
           /\ callers[c].oneshot = "sent"
           /\ callers[c].query = "Tips"
           /\ ~callers[c].reply.tips.ok
           /\ callers'[c].state \in {"returned", "panicked"})
          => callers'[c].state = "returned"]_vars

\* --------------------------------------------------------------------- C15
\* C15: a query sent after a diff of its pair is answered on the book as it is
\* once that diff has been handled: the value put on the reply channel is the
\* one computed on the books after every message queued before the query, and
\* on no other book.
C15_ReplyFollowsEarlierDiffs ==
    \A c \in Callers :
       callers[c].oneshot = "sent"
       => /\ callers[c].reply = callers[c].expected
          /\ callers[c].reply # NoReply

\* a query sent behind a diff that changes its answer has been answered
C15_Witness ==
    \E c \in Callers :
       /\ callers[c].oneshot = "sent"
       /\ callers[c].behind_diff
       /\ callers[c].reply = callers[c].expected

\* --------------------------------------------------------------------- C16
\* the number of messages in the channel that carry caller c's reply sender
InQueue(c) == Cardinality({i \in 1..Len(rx) : rx[i].resp = c})

\* C16 as stated: every query sent is answered with exactly one value, so no
\* query's reply channel is ever closed without a value.
C16_EveryQueryIsAnswered ==
    \A c \in Callers : callers[c].oneshot # "closed"

\* C16 amended: a query is in the channel once until the manager takes it; a
\* query the manager takes is answered with exactly one value of its kind
\* unless its caller has dropped the receiver; and with the manager scheduled
\* fairly every query sent is in the end answered, given up by its caller, or
\* dropped unanswered because handle_diff panicked in the manager, which
\* closes the reply channel without a value.
C16_AnsweredOnceUnlessManagerPanics ==
    /\ [](\A c \in Callers :
             /\ callers[c].replies <= 1
             /\ callers[c].oneshot = "open"
                => (InQueue(c) = 1 /\ callers[c].replies = 0 /\ manager # "panicked")
             /\ callers[c].oneshot = "sent"
                => /\ InQueue(c) = 0
                   /\ callers[c].replies = 1
                   /\ callers[c].reply.kind
                         = IF callers[c].query = "Tips" THEN "tips" ELSE "depth"
             /\ callers[c].oneshot = "closed"
                => (InQueue(c) = 0 /\ callers[c].replies = 0 /\ manager = "panicked"))
    /\ \A c \in Callers :
          (callers[c].oneshot = "open") ~> (callers[c].oneshot # "open")

\* one caller holds its answer and another caller's query was dropped
\* unanswered by a manager that panicked
C16_Witness ==
    \E c, d \in Callers :
       /\ callers[c].oneshot = "sent"
       /\ callers[c].replies = 1
       /\ callers[d].oneshot = "closed"
       /\ manager = "panicked"

\* --------------------------------------------------------------------- C19
\* C19: the manager task panics only on a diff whose first_update_id is above
\* the book's last_update_id + 1; no other message stops it.
C19_OnlyAGapStopsTheManager ==
    [][(manager = "running" /\ manager' = "panicked")
       => /\ rx # <<>>
          /\ Head(rx).type = "OrderbookDiff"
          /\ Head(rx).diff.first_update_id
                > orderbooks[Head(rx).pair].last_update_id + 1]_vars

\* --------------------------------------------------------------------- C24
RECURSIVE LadderValue(_)
\* the sum of price times quantity over a whole ladder
LadderValue(depth) ==
    IF depth = <<>> THEN 0
    ELSE Head(depth)[1] * Head(depth)[2] + LadderValue(Tail(depth))

\* C24: when the walked ladder holds less than the target amount A in all (an
\* empty ladder included), the request is still answered with a result, the
\* value of the whole ladder divided by A, and not with an error.
C24_PartialFillIsDiluted ==
    (/\ request # NoRequest
     /\ from_str(request.amount).ok
     /\ from_str(request.amount).value > 0
     /\ TotalQuantity(WalkedDepth) < from_str(request.amount).value)
    => /\ response.status = "200"
       /\ response.avg_price[2] > 0
       /\ response.avg_price[1] * from_str(request.amount).value
             = LadderValue(WalkedDepth) * response.avg_price[2]

\* a Sell for more than two bid levels hold together has been answered
C24_Witness ==
    /\ request.operation = "Sell"
    /\ response.status = "200"
    /\ Len(orderbook.bids) >= 2
    /\ LadderValue(orderbook.bids) > 0
    /\ from_str(request.amount).ok
    /\ TotalQuantity(orderbook.bids) < from_str(request.amount).value

\* --------------------------------------------------------------------- C21
\* the step is a turn of the manager's loop on a message
Handles == manager = "running" /\ Len(rx') < Len(rx)

\* C21: the manager handles the diffs one at a time in the order they were
\* sent: a message is sent to the end of the channel, the manager takes the
\* oldest, and what handle_diff does with a diff is what it is due to do on
\* the book left by every message sent before it.
C21_DiffsHandledInSendOrder ==
    [][/\ Len(rx') > Len(rx)
          => (Len(rx') = Len(rx) + 1 /\ SubSeq(rx', 1, Len(rx)) = rx)
       /\ Handles
          => /\ rx' = Tail(rx) \/ (manager' = "panicked" /\ rx' = <<>>)
             /\ Head(rx).type = "OrderbookDiff"
                => /\ Head(rx).due.outcome \in {"applied", "ignored", "panic"}
                   /\ (manager' = "panicked") <=> (Head(rx).due.outcome = "panic")
                   /\ orderbooks'[Head(rx).pair] = Head(rx).due.book]_vars

\* two diffs of one pair have been applied one after the other, the later one
\* on the id the earlier one left
C21_Witness ==
    \E pair \in Pairs :
       /\ manager = "running"
       /\ rx = <<>>
       /\ orderbooks[pair].last_update_id = SnapshotId + 4

\* --------------------------------------------------------------------- C22
\* C22: when the manager handles a query whose caller has dropped the reply
\* receiver, the send does nothing: the manager stays running, no book and no
\* caller changes, and the channel goes on with the next message.
C22_SendToDroppedReceiverIsNoOp ==
    [][(/\ Handles
        /\ Head(rx).type \in Queries
        /\ callers[Head(rx).resp].oneshot = "dropped")
       => /\ manager' = "running"
          /\ orderbooks' = orderbooks
          /\ callers' = callers
          /\ rx' = Tail(rx)]_vars

\* the query of a caller that gave up unanswered has been handled, and the
\* manager has answered another caller
C22_Witness ==
    \E c, d \in Callers :
       /\ manager = "running"
       /\ callers[c].state = "gave_up"
       /\ callers[c].replies = 0
       /\ InQueue(c) = 0
       /\ callers[d].oneshot = "sent"

\* --------------------------------------------------------------------- C23
\* C23: the manager ends its loop only once every sender is dropped and the
\* channel is drained; while a sender is alive it stops only on a gap.
C23_StopsOnlyWhenClosedOrOnAGap ==
    [][(manager = "running" /\ manager' # "running")
       => \/ /\ manager' = "finished"
             /\ rx = <<>>
             /\ ws # "reading"
             /\ client = "dropped"
          \/ /\ rx # <<>>
             /\ Head(rx).type = "OrderbookDiff"
             /\ Head(rx).diff.first_update_id
                   > orderbooks[Head(rx).pair].last_update_id + 1]_vars

\* --------------------------------------------------------------------- C25
\* C25: a book changes only when the manager handles a diff of its own pair:
\* a diff of the other pair, applied or dropped, and every query leave it as
\* it is.
C25_PairsAreIsolated ==
    [][\A pair \in Pairs :
          orderbooks'[pair] # orderbooks[pair]
          => /\ Handles
             /\ Head(rx).type = "OrderbookDiff"
             /\ Head(rx).pair = pair]_vars

\* one pair's book has taken a diff, the other pair's book is still its
\* snapshot and has answered a query
C25_Witness ==
    \E pair, other \in Pairs, c \in Callers :
       /\ orderbooks[pair].last_update_id > SnapshotId
       /\ orderbooks[other] \in ManagerBooks
       /\ callers[c].oneshot = "sent"
       /\ callers[c].pair = other

\* --------------------------------------------------------------------- C26
\* C26: once handle_diff has panicked in the manager nothing is processed any
\* more: the channel is gone with the queries queued in it, whose reply
\* channels are closed without a value; no book changes; no caller is sent a
\* value; a call made afterwards fails to send; a caller whose reply channel
\* was closed never returns a value.
C26_NothingAfterTheAbort ==
    /\ [](manager = "panicked"
          => (rx = <<>> /\ \A c \in Callers : callers[c].oneshot # "open"))
    /\ [][manager = "panicked"
          => /\ manager' = "panicked"
             /\ orderbooks' = orderbooks
             /\ \A c \in Callers :
                   /\ callers'[c].oneshot = "sent" => callers[c].oneshot = "sent"
                   /\ callers'[c].replies <= callers[c].replies
                   /\ (callers[c].state = "idle" /\ callers'[c].state # "idle")
                      => callers'[c].state = "send_failed"
                   /\ (callers[c].oneshot = "closed" /\ callers'[c] # callers[c])
                      => callers'[c].state \in {"panicked", "gave_up"}]_vars

\* the manager has panicked on a gap; one caller's queued query was dropped
\* and another caller's later call has failed to send
C26_Witness ==
    \E c, d \in Callers :
       /\ manager = "panicked"
       /\ outcome = "panic"
       /\ diff.first_update_id > pre.last_update_id + 1
       /\ callers[c].oneshot = "closed"
       /\ callers[d].state = "send_failed"

\* --------------------------------------------------------------------- C27
\* C27: the messages sent while the snapshots are fetched stay in the channel
\* until the manager is started and are then handled in send order; a
\* buffered diff that reaches its pair's book still at the snapshot is
\* dropped when U <= lastUpdateId and applied when F <= lastUpdateId+1 <= U.
C27_BufferedMessagesAreHandled ==
    [][/\ manager = "starting"
          => (rx' = rx \/ (Len(rx') = Len(rx) + 1 /\ SubSeq(rx', 1, Len(rx)) = rx))
       /\ (Handles /\ Head(rx).buffered)
          => LET msg == Head(rx)
                 book == orderbooks[msg.pair]
             IN (msg.type = "OrderbookDiff" /\ book \in ManagerBooks)
                => /\ msg.diff.last_update_id <= book.last_update_id
                      => (rx' = Tail(rx) /\ manager' = "running"
                                         /\ orderbooks' = orderbooks)
                   /\ (/\ msg.diff.first_update_id <= book.last_update_id + 1
                       /\ book.last_update_id + 1 <= msg.diff.last_update_id)
                      => /\ rx' = Tail(rx)
                         /\ manager' = "running"
                         /\ orderbooks'[msg.pair] = apply_diff(book, msg.diff)]_vars

====
